---- MODULE Spec2Model ----
(***************************************************************************)
(* PyStatTools: the DataSet / DataSetWithStatistics classes of             *)
(* Statistics.py and DataSetHypothesisTester.one_sample_z_test of          *)
(* HypothesisTesting.py, as operators on an object record and a state      *)
(* machine that calls them on one sample.                                  *)
(*                                                                         *)
(* Numbers.  The observations are small integers; every derived quantity   *)
(* (mean, deviation, variance, limit of the outlier test) is a rational,   *)
(* kept exactly as a normalised pair <<numerator, denominator>>.  A square  *)
(* root is kept symbolically as the rational under the root.               *)
(*                                                                         *)
(* Method results.  Every method is an operator returning a record         *)
(*   [self |-> the object after the call, out |-> "ok" or the exception,   *)
(*    ret |-> the returned value (<<>> when an exception was raised)]      *)
(* so that what a call leaves behind in the object when it raises (a       *)
(* cached scalar set before the exception) is part of the result.          *)
(***************************************************************************)
EXTENDS Integers, Sequences, FiniteSets, TLC

VARIABLES self, last

vars == <<self, last>>

\* Longest sample constructed.
MaxLen == 4
\* Observations are drawn from 0..MaxVal.
MaxVal == 2
\* Longest second sample handed to covariance / pearson_correlation_coefficient.
OtherMaxLen == 2
\* Longest list of 0s and 1s constructed for the outlier removal alone.
MaxLenTrim == 10

-----------------------------------------------------------------------------
(* Python numbers *)

Abs(x) == IF x < 0 THEN -x ELSE x

RECURSIVE GCD(_, _)
GCD(a, b) == IF b = 0 THEN a ELSE GCD(b, a % b)

\* The rational n/d (d # 0) in lowest terms with a positive denominator.
Num(n, d) ==
    LET g == GCD(Abs(n), Abs(d))
        s == IF d < 0 THEN -1 ELSE 1
    IN  <<(s * n) \div g, (s * d) \div g>>

FromInt(k) == <<k, 1>>

Add(a, b) == Num(a[1] * b[2] + b[1] * a[2], a[2] * b[2])
Sub(a, b) == Num(a[1] * b[2] - b[1] * a[2], a[2] * b[2])
Mul(a, b) == Num(a[1] * b[1], a[2] * b[2])
\* a / b for b # 0; the callers raise ZeroDivisionError when b = 0.
Div(a, b) == Num(a[1] * b[2], a[2] * b[1])
Less(a, b) == a[1] * b[2] < b[1] * a[2]
IsZero(a) == a[1] = 0

\* The cached scalars start as None.
None == <<>>

\* The record of a call (see the state machine below) when no call has been made.
NoCall ==
    [op |-> "none", args |-> <<>>, before |-> None, out |-> "ok", ret |-> None, other |-> None]

Ok(obj, value) == [self |-> obj, out |-> "ok", ret |-> value]
Raise(obj, exception) == [self |-> obj, out |-> exception, ret |-> <<>>]

-----------------------------------------------------------------------------
(* Built-ins used by the classes *)

\* sum(xs): starts from the integer 0.
RECURSIVE sum(_)
sum(xs) == IF xs = <<>> THEN FromInt(0) ELSE Add(sum(SubSeq(xs, 1, Len(xs) - 1)), xs[Len(xs)])

\* xs[i] with Python's 0-based index and negative indices counted from the end.
GetItem(xs, i) ==
    IF 0 <= i /\ i < Len(xs) THEN [out |-> "ok", ret |-> xs[i + 1]]
    ELSE IF i < 0 /\ -i <= Len(xs) THEN [out |-> "ok", ret |-> xs[Len(xs) + i + 1]]
    ELSE [out |-> "IndexError", ret |-> <<>>]

\* xs[:k] and xs[k:] for 0 <= k.
SliceTo(xs, k) == SubSeq(xs, 1, IF k < Len(xs) THEN k ELSE Len(xs))
SliceFrom(xs, k) == SubSeq(xs, k + 1, Len(xs))

\* sorted(xs): a new ascending list (stable insertion of each element in turn).
RECURSIVE Insert(_, _)
Insert(xs, v) ==
    IF xs = <<>> THEN <<v>>
    ELSE IF Less(v, xs[Len(xs)]) THEN Append(Insert(SubSeq(xs, 1, Len(xs) - 1), v), xs[Len(xs)])
    ELSE Append(xs, v)

RECURSIVE sorted(_)
sorted(xs) == IF xs = <<>> THEN <<>> ELSE Insert(sorted(SubSeq(xs, 1, Len(xs) - 1)), xs[Len(xs)])

RECURSIVE max(_)
max(xs) ==
    IF Len(xs) = 1 THEN xs[1]
    ELSE LET m == max(SubSeq(xs, 1, Len(xs) - 1)) IN IF Less(m, xs[Len(xs)]) THEN xs[Len(xs)] ELSE m

RECURSIVE min(_)
min(xs) ==
    IF Len(xs) = 1 THEN xs[1]
    ELSE LET m == min(SubSeq(xs, 1, Len(xs) - 1)) IN IF Less(xs[Len(xs)], m) THEN xs[Len(xs)] ELSE m

\* list.remove(v): drops the first element equal to v.
RECURSIVE ListRemove(_, _)
ListRemove(xs, v) ==
    IF xs = <<>> THEN <<>>
    ELSE IF xs[1] = v THEN Tail(xs)
    ELSE <<xs[1]>> \o ListRemove(Tail(xs), v)

-----------------------------------------------------------------------------
(* class DataSet(list) *)

\* DataSet.__init__: the list is copied and size is set from its length.
DataSet(data) == [data |-> data, size |-> Len(data)]

\* DataSet.__pow__ for the only power the classes use, 2.
DataSet_pow(this, power) ==
    DataSet([i \in 1..Len(this.data) |->
                IF power = 2 THEN Mul(this.data[i], this.data[i]) ELSE this.data[i]])

\* DataSet.__mul__: zip stops at the shorter of the two lists.
DataSet_mul(this, other) ==
    LET n == IF Len(this.data) < Len(other.data) THEN Len(this.data) ELSE Len(other.data)
    IN  DataSet([i \in 1..n |-> Mul(this.data[i], other.data[i])])

-----------------------------------------------------------------------------
(* class DataSetWithStatistics(DataSet) *)

DataSetWithStatistics(data_set) ==
    [data |-> data_set, size |-> DataSet(data_set).size,
     cached_sum |-> None, cached_even |-> None]

sum_of_observations(this) ==
    IF this.cached_sum = None
    THEN LET Store(s) == Ok([this EXCEPT !.cached_sum = <<s>>], s) IN Store(sum(this.data))
    ELSE Ok(this, this.cached_sum[1])

is_num_of_items_even(this) ==
    IF this.cached_even = None
    THEN LET Store(e) == Ok([this EXCEPT !.cached_even = <<e>>], e) IN Store(this.size % 2 = 0)
    ELSE Ok(this, this.cached_even[1])

\* The sum is computed (and cached) before the division is attempted.
arithmetic_mean(this, bessel_correction) ==
    LET n == IF bessel_correction THEN this.size - 1 ELSE this.size
        Divide(s) ==
            IF n = 0 THEN Raise(s.self, "ZeroDivisionError")
            ELSE Ok(s.self, Div(s.ret, FromInt(n)))
    IN  Divide(sum_of_observations(this))

median(this) ==
    LET idx_of_second_mid_value == this.size \div 2
        idx_of_first_mid_value == idx_of_second_mid_value - 1
        Single(e, mid) == IF mid.out = "ok" THEN Ok(e.self, mid.ret) ELSE Raise(e.self, mid.out)
        Average(e, first, second) ==
            IF first.out # "ok" THEN Raise(e.self, first.out)
            ELSE IF second.out # "ok" THEN Raise(e.self, second.out)
            ELSE Ok(e.self, Div(Add(first.ret, second.ret), FromInt(2)))
        Middle(e) ==
            IF e.ret = FALSE THEN Single(e, GetItem(this.data, this.size \div 2))
            ELSE Average(e, GetItem(this.data, idx_of_first_mid_value),
                         GetItem(this.data, idx_of_second_mid_value))
    IN  Middle(is_num_of_items_even(this))

\* mode: the keys of freq_dictionary in insertion order (first occurrence in the list).
RECURSIVE FreqKeys(_)
FreqKeys(xs) ==
    IF xs = <<>> THEN <<>>
    ELSE LET AddKey(ks, value) ==
                 IF \E i \in 1..Len(ks) : ks[i] = value THEN ks ELSE Append(ks, value)
         IN  AddKey(FreqKeys(SubSeq(xs, 1, Len(xs) - 1)), xs[Len(xs)])

\* mode: freq_dictionary[value] after the counting loop.
FreqOf(xs, value) == Cardinality({i \in 1..Len(xs) : xs[i] = value})

\* mode: the scan over freq_dictionary.items() from item k on, carrying modes_list and max_freq.
RECURSIVE ModeScan(_, _, _, _, _)
ModeScan(xs, keys, k, modes_list, max_freq) ==
    IF k > Len(keys) THEN [modes_list |-> modes_list, max_freq |-> max_freq]
    ELSE LET value_freq == FreqOf(xs, keys[k])
         IN  IF value_freq > max_freq THEN ModeScan(xs, keys, k + 1, <<keys[k]>>, value_freq)
             ELSE IF value_freq = max_freq
                  THEN ModeScan(xs, keys, k + 1, Append(modes_list, keys[k]), max_freq)
             ELSE ModeScan(xs, keys, k + 1, modes_list, max_freq)

\* mode, returning the first of several modes instead of the list of them.
mode_first_of_ties(this) ==
    LET Result(scan) ==
            IF scan.max_freq > 1 THEN Ok(this, <<"value", scan.modes_list[1]>>)
            ELSE Raise(this, "ValueError: No mode found")
    IN  Result(ModeScan(this.data, FreqKeys(this.data), 1, <<>>, 0))

\* Returns <<"list", modes_list>> for several modes and <<"value", v>> for one.
mode(this) ==
    LET Result(scan, num_of_modes) ==
            IF scan.max_freq > 1 /\ num_of_modes > 1 THEN Ok(this, <<"list", scan.modes_list>>)
            ELSE IF scan.max_freq > 1 /\ num_of_modes = 1
                 THEN Ok(this, <<"value", scan.modes_list[1]>>)
            ELSE Raise(this, "ValueError: No mode found")
        Counted(scan) == Result(scan, Len(scan.modes_list))
    IN  Counted(ModeScan(this.data, FreqKeys(this.data), 1, <<>>, 0))

range(this) ==
    IF this.data = <<>> THEN Raise(this, "ValueError: max() arg is an empty sequence")
    ELSE Ok(this, Sub(max(this.data), min(this.data)))

\* The result of a call made on another object, as the result of the method of obj
\* that made it.
Of(obj, r) == [self |-> obj, out |-> r.out, ret |-> r.ret]

\* [value - data_set_mean for value in self]
Differences(xs, data_set_mean) == [i \in 1..Len(xs) |-> Sub(xs[i], data_set_mean)]

\* diff_between_values_and_mean, subtracting the mean from the sample's own elements.
diff_between_values_and_mean_in_place(this, squared) ==
    LET Squared(obj, diff) ==
            Ok([obj EXCEPT !.data = diff.data],
               DataSetWithStatistics(IF squared THEN DataSet_pow(diff, 2).data ELSE diff.data))
        Subtract(data_set_mean) ==
            IF data_set_mean.out # "ok" THEN data_set_mean
            ELSE Squared(data_set_mean.self,
                         DataSetWithStatistics(Differences(this.data, data_set_mean.ret)))
    IN  Subtract(arithmetic_mean(this, FALSE))

\* Returns a new DataSetWithStatistics object.
diff_between_values_and_mean(this, squared) ==
    LET Squared(obj, diff) ==
            Ok(obj,
               DataSetWithStatistics(IF squared THEN DataSet_pow(diff, 2).data ELSE diff.data))
        Subtract(data_set_mean) ==
            IF data_set_mean.out # "ok" THEN data_set_mean
            ELSE Squared(data_set_mean.self,
                         DataSetWithStatistics(Differences(this.data, data_set_mean.ret)))
    IN  Subtract(arithmetic_mean(this, FALSE))

variance(this, bessel_correction) ==
    LET Mean(squared_differences) ==
            IF squared_differences.out # "ok" THEN squared_differences
            ELSE Of(squared_differences.self,
                    arithmetic_mean(squared_differences.ret, bessel_correction))
    IN  Mean(diff_between_values_and_mean(this, TRUE))

\* math.sqrt(x), kept as the number under the root.
sqrt(x) ==
    IF Less(x, FromInt(0)) THEN [out |-> "ValueError: math domain error", ret |-> <<>>]
    ELSE [out |-> "ok", ret |-> [sqrt_of |-> x]]

standard_deviation(this, bessel_correction) ==
    LET Root(v) == IF v.out # "ok" THEN v ELSE Of(v.self, sqrt(v.ret))
    IN  Root(variance(this, bessel_correction))

\* The second sample is an object too: the result carries it as `other`.
WithOther(r, other) == [self |-> r.self, other |-> other, out |-> r.out, ret |-> r.ret]

covariance(this, other, bessel_correction, raw_covariance) ==
    LET Total(set_1_diff, set_2_diff, products_of_sets) ==
            IF raw_covariance THEN Ok(set_1_diff.self, sum(products_of_sets.data))
            ELSE Of(set_1_diff.self,
                    arithmetic_mean(DataSetWithStatistics(products_of_sets.data),
                                    bessel_correction))
        Second(set_1_diff, set_2_diff) ==
            IF set_2_diff.out # "ok"
            THEN WithOther(Raise(set_1_diff.self, set_2_diff.out), set_2_diff.self)
            ELSE WithOther(Total(set_1_diff, set_2_diff,
                                 DataSet_mul(set_1_diff.ret, set_2_diff.ret)),
                           set_2_diff.self)
        First(set_1_diff) ==
            IF set_1_diff.out # "ok" THEN WithOther(set_1_diff, other)
            ELSE Second(set_1_diff, diff_between_values_and_mean(other, FALSE))
    IN  First(diff_between_values_and_mean(this, FALSE))

\* Returns raw_covariance / (sqrt(a) * sqrt(b)) as [num |-> raw_covariance, sqrt_of_den |-> a * b].
pearson_correlation_coefficient(this, other) ==
    LET Quotient(raw_covariance, set_1, set_2, root_1, root_2) ==
            IF root_1.out # "ok" THEN WithOther(Raise(set_1.self, root_1.out), set_2.self)
            ELSE IF root_2.out # "ok" THEN WithOther(Raise(set_1.self, root_2.out), set_2.self)
            ELSE IF IsZero(root_1.ret.sqrt_of) \/ IsZero(root_2.ret.sqrt_of)
                 THEN WithOther(Raise(set_1.self, "ZeroDivisionError"), set_2.self)
            ELSE WithOther(Ok(set_1.self,
                              [num |-> raw_covariance.ret,
                               sqrt_of_den |-> Mul(root_1.ret.sqrt_of, root_2.ret.sqrt_of)]),
                           set_2.self)
        Sums(raw_covariance, set_1, set_2) ==
            IF set_1.out # "ok" THEN WithOther(set_1, raw_covariance.other)
            ELSE IF set_2.out # "ok" THEN WithOther(Raise(set_1.self, set_2.out), set_2.self)
            ELSE Quotient(raw_covariance, set_1, set_2,
                          sqrt(sum(set_1.ret.data)), sqrt(sum(set_2.ret.data)))
        Squares(raw_covariance) ==
            IF raw_covariance.out # "ok" THEN raw_covariance
            ELSE Sums(raw_covariance,
                      diff_between_values_and_mean(raw_covariance.self, TRUE),
                      diff_between_values_and_mean(raw_covariance.other, TRUE))
    IN  Squares(covariance(this, other, TRUE, TRUE))

\* quantiles, with the upper half starting at the midpoint for odd sizes too.
quantiles_upper_half_from_mid(this) ==
    LET Triple(first_quartile, e, third_quartile, second_quartile) ==
            IF third_quartile.out # "ok" THEN Raise(e.self, third_quartile.out)
            ELSE IF second_quartile.out # "ok" THEN second_quartile
            ELSE Ok(second_quartile.self,
                    <<first_quartile.ret, second_quartile.ret, third_quartile.ret>>)
        Upper(sorted_data_set, idx_of_mid_value, first_quartile, e) ==
            IF first_quartile.out # "ok" THEN Raise(this, first_quartile.out)
            ELSE Triple(first_quartile, e,
                        median(DataSetWithStatistics(
                                   SliceFrom(sorted_data_set.data, idx_of_mid_value))),
                        median(e.self))
        Lower(sorted_data_set, idx_of_mid_value) ==
            Upper(sorted_data_set, idx_of_mid_value,
                  median(DataSetWithStatistics(SliceTo(sorted_data_set.data, idx_of_mid_value))),
                  is_num_of_items_even(this))
        Split(sorted_data_set) == Lower(sorted_data_set, sorted_data_set.size \div 2)
    IN  Split(DataSetWithStatistics(sorted(this.data)))

\* Returns <<first_quartile, self.median(), third_quartile>>.  The parity of self is
\* read (and cached) only after the first quartile has been computed.
quantiles(this) ==
    LET Triple(first_quartile, e, third_quartile, second_quartile) ==
            IF third_quartile.out # "ok" THEN Raise(e.self, third_quartile.out)
            ELSE IF second_quartile.out # "ok" THEN second_quartile
            ELSE Ok(second_quartile.self,
                    <<first_quartile.ret, second_quartile.ret, third_quartile.ret>>)
        Upper(sorted_data_set, idx_of_mid_value, first_quartile, e) ==
            IF first_quartile.out # "ok" THEN Raise(this, first_quartile.out)
            ELSE Triple(first_quartile, e,
                        median(DataSetWithStatistics(
                                   SliceFrom(sorted_data_set.data,
                                             IF e.ret THEN idx_of_mid_value
                                             ELSE idx_of_mid_value + 1))),
                        median(e.self))
        Lower(sorted_data_set, idx_of_mid_value) ==
            Upper(sorted_data_set, idx_of_mid_value,
                  median(DataSetWithStatistics(SliceTo(sorted_data_set.data, idx_of_mid_value))),
                  is_num_of_items_even(this))
        Split(sorted_data_set) == Lower(sorted_data_set, sorted_data_set.size \div 2)
    IN  Split(DataSetWithStatistics(sorted(this.data)))

interquartile_range(this) ==
    LET Width(q) == IF q.out # "ok" THEN q ELSE Ok(q.self, Sub(q.ret[3], q.ret[1]))
    IN  Width(quantiles(this))

\* The loop of remove_outliers_iqr run over the list from its first element on.
RECURSIVE RemoveLoopForwardFrom(_, _, _, _)
RemoveLoopForwardFrom(xs, i, lower_limit, upper_limit) ==
    IF i >= Len(xs) THEN xs
    ELSE IF Less(xs[i + 1], lower_limit) \/ Less(upper_limit, xs[i + 1])
    THEN RemoveLoopForwardFrom(ListRemove(xs, xs[i + 1]), i + 1, lower_limit, upper_limit)
    ELSE RemoveLoopForwardFrom(xs, i + 1, lower_limit, upper_limit)

RemoveLoopForward(xs, i, lower_limit, upper_limit) ==
    RemoveLoopForwardFrom(xs, 0, lower_limit, upper_limit)

\* remove_outliers_iqr: the loop over reversed(self).  The reverse iterator holds
\* the 0-based index i, stops once i is outside the list as it is now, and yields
\* xs[i]; the body removes the first element equal to the value it was given.
RECURSIVE RemoveLoop(_, _, _, _)
RemoveLoop(xs, i, lower_limit, upper_limit) ==
    IF i < 0 \/ i >= Len(xs) THEN xs
    ELSE IF Less(xs[i + 1], lower_limit) \/ Less(upper_limit, xs[i + 1])
    THEN RemoveLoop(ListRemove(xs, xs[i + 1]), i - 1, lower_limit, upper_limit)
    ELSE RemoveLoop(xs, i - 1, lower_limit, upper_limit)

\* Returns None; the log lines are printed output and not part of the state.
remove_outliers_iqr(this, outlier_step) ==
    LET Scan(obj, lower_limit, upper_limit) ==
            Ok([obj EXCEPT !.data = RemoveLoop(obj.data, Len(obj.data) - 1,
                                               lower_limit, upper_limit)],
               None)
        Limits(obj, first_quantile, third_quantile, interquartile_range_) ==
            Scan(obj, Sub(first_quantile, Mul(outlier_step, interquartile_range_)),
                 Add(third_quantile, Mul(outlier_step, interquartile_range_)))
        Quartiles(q) ==
            IF q.out # "ok" THEN q
            ELSE Limits(q.self, q.ret[1], q.ret[3], Sub(q.ret[3], q.ret[1]))
    IN  Quartiles(quantiles(this))

-----------------------------------------------------------------------------
(* class DataSetHypothesisTester(Statistics.DataSetWithStatistics) *)

DataSetHypothesisTester(data_set) == DataSetWithStatistics(data_set)

\* scipy.stats.norm.cdf on |z|, tabulated: <<|z| in hundredths, cdf in 1/10000>>.
\* The value used is that of the largest tabulated |z| not above the argument
\* (the cdf of 0 is exactly 1/2).
NormCdfTable ==
    << <<0, 5000>>, <<1, 5040>>, <<10, 5398>>, <<25, 5987>>, <<50, 6915>>, <<75, 7734>>,
       <<100, 8413>>, <<128, 8998>>, <<150, 9332>>, <<165, 9506>>, <<196, 9751>>,
       <<233, 9901>>, <<258, 9951>>, <<300, 9987>>, <<400, 10000>> >>

\* A z-value is kept as its sign and its square (the square is rational).
NormCdf(z) ==
    LET reached == {k \in 1..Len(NormCdfTable) :
                       NormCdfTable[k][1] * NormCdfTable[k][1] * z.square[2]
                           <= z.square[1] * 10000}
        Value(upper) == IF z.sign >= 0 THEN upper ELSE Sub(FromInt(1), upper)
        Entry(k) == Value(Num(NormCdfTable[k][2], 10000))
    IN  Entry(CHOOSE j \in reached : \A m \in reached : m <= j)

\* abs(test_statistic)
AbsZ(z) == [sign |-> Abs(z.sign), square |-> z.square]

Directions == {"two-tailed", "left-tailed", "right-tailed"}

\* p_value with the two-tailed value not doubled.
PValue_one_tail(direction_of_hypothesis, test_statistic) ==
    IF direction_of_hypothesis = "two-tailed" \/ direction_of_hypothesis = "right-tailed"
    THEN Sub(FromInt(1), NormCdf(AbsZ(test_statistic)))
    ELSE NormCdf(test_statistic)

\* p_value for the direction; any direction other than the first two takes the
\* else branch.
PValue(direction_of_hypothesis, test_statistic) ==
    IF direction_of_hypothesis = "two-tailed"
    THEN Mul(FromInt(2), Sub(FromInt(1), NormCdf(AbsZ(test_statistic))))
    ELSE IF direction_of_hypothesis = "right-tailed"
    THEN Sub(FromInt(1), NormCdf(test_statistic))
    ELSE NormCdf(test_statistic)

\* The computation after the check of the direction.  population_standard_deviation
\* is None, or a rational; the sample's own standard deviation is a square root, so the
\* standard deviation is carried as its square.  critical_value is computed for the
\* printed report only and is not part of the result.
ZTestStatistics(this, hypothetical_population_mean, population_standard_deviation, significance_level, direction_of_hypothesis) ==
    LET Decide(obj, test_statistic, p_value) ==
            Ok(obj, [z_value |-> test_statistic, p_value |-> p_value,
                     null_hypothesis_rejected |-> Less(p_value, significance_level)])
        Test(obj, test_statistic) ==
            Decide(obj, test_statistic, PValue(direction_of_hypothesis, test_statistic))
        Statistic(obj, d, sd_squared) ==
            IF IsZero(sd_squared) THEN Raise(obj, "ZeroDivisionError")
            ELSE Test(obj, [sign |-> IF IsZero(d) THEN 0
                                     ELSE IF Less(d, FromInt(0)) THEN -1 ELSE 1,
                            square |-> Div(Mul(Mul(d, d), FromInt(this.size)), sd_squared)])
        Own(sample_mean, own) ==
            IF own.out # "ok" THEN own
            ELSE Statistic(own.self, Sub(sample_mean.ret, hypothetical_population_mean),
                           own.ret.sqrt_of)
        Deviation(sample_mean) ==
            IF sample_mean.out # "ok" THEN sample_mean
            ELSE IF population_standard_deviation = None
                    \/ IsZero(population_standard_deviation)
            THEN Own(sample_mean, standard_deviation(sample_mean.self, TRUE))
            ELSE Statistic(sample_mean.self,
                           Sub(sample_mean.ret, hypothetical_population_mean),
                           Mul(population_standard_deviation, population_standard_deviation))
    IN  Deviation(arithmetic_mean(this, FALSE))

\* one_sample_z_test, checking the direction after the statistics are computed.
one_sample_z_test_checking_late(this, hypothetical_population_mean, population_standard_deviation, significance_level, direction_of_hypothesis) ==
    LET Check(r) ==
            IF r.out # "ok" THEN r
            ELSE IF direction_of_hypothesis \notin Directions
            THEN Raise(r.self, "ValueError: Invalid alternative hypothesis direction")
            ELSE r
    IN  Check(ZTestStatistics(this, hypothetical_population_mean,
                              population_standard_deviation, significance_level,
                              direction_of_hypothesis))

one_sample_z_test(this, hypothetical_population_mean, population_standard_deviation, significance_level, direction_of_hypothesis) ==
    IF direction_of_hypothesis \notin Directions
    THEN Raise(this, "ValueError: Invalid alternative hypothesis direction")
    ELSE ZTestStatistics(this, hypothetical_population_mean, population_standard_deviation,
                         significance_level, direction_of_hypothesis)

-----------------------------------------------------------------------------
(* The program: one sample is constructed, then its methods are called one
   after the other, in any order and with any arguments.  `last` is the call
   whose result the caller holds: the method, its arguments, the sample as it
   was before the call, how the call ended, what it returned and, for the
   two-sample methods, the second sample as the call left it.  Between two calls the caller holds nothing (NoCall). *)

Observations == {FromInt(v) : v \in 0..MaxVal}

Samples == UNION {[1..n -> Observations] : n \in 0..MaxLen}

\* The second samples: lists of 0s and 1s of length 2 and more.
OtherSamples == UNION {[1..n -> {FromInt(0), FromInt(1)}] : n \in 2..OtherMaxLen}

\* outlier_step: 0, 1/2 and the default 1.5
Steps == {FromInt(0), <<1, 2>>, <<3, 2>>}

HypotheticalMeans == {FromInt(0), FromInt(1)}

PopulationStandardDeviations == {None, FromInt(1), FromInt(2)}

\* significance_level: the default 0.05, and 1
SignificanceLevels == {<<1, 20>>, FromInt(1)}

DirectionArguments == Directions \cup {"both"}

Called(op, args, r) ==
    /\ self' = r.self
    /\ last' = [op |-> op, args |-> args, before |-> self, out |-> r.out, ret |-> r.ret,
                other |-> None]

CalledWithOther(op, args, r) ==
    /\ self' = r.self
    /\ last' = [op |-> op, args |-> args, before |-> self, out |-> r.out, ret |-> r.ret,
                other |-> r.other]

Init ==
    /\ self \in {DataSetHypothesisTester(data) : data \in Samples}
    /\ last = NoCall

\* The caller is done with the result of the call; the sample stays as it is.
Return ==
    /\ last.op # "none"
    /\ last' = NoCall
    /\ UNCHANGED self

SumOfObservations ==
    /\ last.op = "none"
    /\ Called("sum_of_observations", <<>>, sum_of_observations(self))

IsNumOfItemsEven ==
    /\ last.op = "none"
    /\ Called("is_num_of_items_even", <<>>, is_num_of_items_even(self))

ArithmeticMean ==
    /\ last.op = "none"
    /\ \E bessel_correction \in BOOLEAN :
        Called("arithmetic_mean", <<bessel_correction>>,
               arithmetic_mean(self, bessel_correction))

Median ==
    /\ last.op = "none"
    /\ Called("median", <<>>, median(self))

Mode ==
    /\ last.op = "none"
    /\ Called("mode", <<>>, mode(self))

Range ==
    /\ last.op = "none"
    /\ Called("range", <<>>, range(self))

DiffBetweenValuesAndMean ==
    /\ last.op = "none"
    /\ \E squared \in BOOLEAN :
        Called("diff_between_values_and_mean", <<squared>>,
               diff_between_values_and_mean(self, squared))

Variance ==
    /\ last.op = "none"
    /\ \E bessel_correction \in BOOLEAN :
        Called("variance", <<bessel_correction>>, variance(self, bessel_correction))

StandardDeviation ==
    /\ last.op = "none"
    /\ \E bessel_correction \in BOOLEAN :
        Called("standard_deviation", <<bessel_correction>>,
               standard_deviation(self, bessel_correction))

Covariance ==
    /\ last.op = "none"
    /\ \E data \in OtherSamples, bessel_correction \in BOOLEAN, raw_covariance \in BOOLEAN :
        CalledWithOther("covariance", <<data, bessel_correction, raw_covariance>>,
                        covariance(self, DataSetWithStatistics(data),
                                   bessel_correction, raw_covariance))

PearsonCorrelationCoefficient ==
    /\ last.op = "none"
    /\ \E data \in OtherSamples :
        CalledWithOther("pearson_correlation_coefficient", <<data>>,
                        pearson_correlation_coefficient(self, DataSetWithStatistics(data)))

Quantiles ==
    /\ last.op = "none"
    /\ Called("quantiles", <<>>, quantiles(self))

InterquartileRange ==
    /\ last.op = "none"
    /\ Called("interquartile_range", <<>>, interquartile_range(self))

RemoveOutliersIqr ==
    /\ last.op = "none"
    /\ \E outlier_step \in Steps :
        Called("remove_outliers_iqr", <<outlier_step>>,
               remove_outliers_iqr(self, outlier_step))

OneSampleZTest ==
    /\ last.op = "none"
    /\ \E mu \in HypotheticalMeans, sd \in PopulationStandardDeviations,
       alpha \in SignificanceLevels, direction \in DirectionArguments :
        Called("one_sample_z_test", <<mu, sd, alpha, direction>>,
               one_sample_z_test(self, mu, sd, alpha, direction))

Next ==
    \/ SumOfObservations
    \/ IsNumOfItemsEven
    \/ ArithmeticMean
    \/ Median
    \/ Mode
    \/ Range
    \/ DiffBetweenValuesAndMean
    \/ Variance
    \/ StandardDeviation
    \/ Covariance
    \/ PearsonCorrelationCoefficient
    \/ Quantiles
    \/ InterquartileRange
    \/ RemoveOutliersIqr
    \/ OneSampleZTest
    \/ Return

Spec == Init /\ [][Next]_vars

\* The outlier removal alone, on the samples above and on longer lists of 0s and 1s
\* (two equal outliers at different positions need 8 elements, 10 with the default step).
LongSamples == UNION {[1..n -> {FromInt(0), FromInt(1)}] : n \in 0..MaxLenTrim}

InitTrim ==
    /\ self \in {DataSetHypothesisTester(data) : data \in Samples \cup LongSamples}
    /\ last = NoCall

NextTrim ==
    \/ RemoveOutliersIqr
    \/ Return

SpecTrim == InitTrim /\ [][NextTrim]_vars

-----------------------------------------------------------------------------
(* What the properties are stated with: the sample's contents as a list, sorted
   and summarised directly, apart from the methods above. *)

\* No element has been removed from the sample since it was constructed.
Untrimmed(obj) == obj.size = Len(obj.data)

Positions(xs) == 1..Len(xs)

\* The ascending arrangement of xs: position i holds the value with fewer than i
\* smaller elements and at least i elements not above it.
Ascending(xs) ==
    [i \in Positions(xs) |->
        CHOOSE v \in {xs[j] : j \in Positions(xs)} :
            /\ Cardinality({j \in Positions(xs) : Less(xs[j], v)}) < i
            /\ i <= Cardinality({j \in Positions(xs) : ~Less(v, xs[j])})]

\* The median of a non-empty ascending list.
MiddleOf(s) ==
    IF Len(s) % 2 = 1 THEN s[(Len(s) + 1) \div 2]
    ELSE Div(Add(s[Len(s) \div 2], s[Len(s) \div 2 + 1]), FromInt(2))

Occurrences(xs, v) == Cardinality({i \in Positions(xs) : xs[i] = v})

FirstPosition(xs, v) == CHOOSE i \in Positions(xs) : xs[i] = v /\ \A j \in 1..(i - 1) : xs[j] # v

ValuesOf(xs) == {xs[i] : i \in Positions(xs)}

IsCall(op) == last.op = op

\* C1: in every reachable state the sample's size field equals the length of its list.
SizeIsLength == self.size = Len(self.data)

\* C2: remove_outliers_iqr(step) leaves exactly the elements v of the list as it was
\* before the call with lower <= v <= upper, in their order, where lower = Q1 - step*IQR
\* and upper = Q3 + step*IQR come from the quantiles the sample had before the call;
\* when the sample has no quantiles the call raises and removes nothing.
OutlierRemovalKeepsExactlyTheInRange ==
    IsCall("remove_outliers_iqr") =>
        LET Kept(lower, upper) ==
                LET InRange(v) == ~Less(v, lower) /\ ~Less(upper, v)
                IN  SelectSeq(last.before.data, InRange)
            Within(q1, q3, iqr) ==
                Kept(Sub(q1, Mul(last.args[1], iqr)), Add(q3, Mul(last.args[1], iqr)))
            Holds(q) ==
                IF q.out = "ok"
                THEN last.out = "ok" /\ self.data = Within(q.ret[1], q.ret[3],
                                                           Sub(q.ret[3], q.ret[1]))
                ELSE last.out = q.out /\ self.data = last.before.data
        IN  Holds(quantiles(last.before))

\* C2 witness: with the default step, two equal outliers at the two ends of a freshly
\* constructed list were removed in one call and the elements between them were kept.
TwoEqualOutliersRemoved ==
    /\ IsCall("remove_outliers_iqr")
    /\ last.out = "ok"
    /\ last.args[1] = <<3, 2>>
    /\ Untrimmed(last.before)
    /\ Len(last.before.data) = Len(self.data) + 2
    /\ last.before.data[1] = last.before.data[Len(last.before.data)]
    /\ last.before.data[1] \notin ValuesOf(self.data)
    /\ self.data = SubSeq(last.before.data, 2, Len(last.before.data) - 1)

\* C3: on a sample of 2 or more elements from which nothing has been removed, in any
\* order, quantiles() returns as Q1 the median of sorted[:N//2] and as Q3 the median of
\* sorted[N//2:] for even N and of sorted[N//2+1:] for odd N.
ExclusiveMedianQuartiles ==
    (IsCall("quantiles") /\ Untrimmed(last.before) /\ Len(last.before.data) >= 2) =>
        LET s == Ascending(last.before.data)
            n == Len(s)
            lower_half == SubSeq(s, 1, n \div 2)
            upper_half == SubSeq(s, IF n % 2 = 0 THEN n \div 2 + 1 ELSE n \div 2 + 2, n)
        IN  /\ last.out = "ok"
            /\ last.ret[1] = MiddleOf(lower_half)
            /\ last.ret[3] = MiddleOf(upper_half)

\* C3 witness: quantiles() returned on an unsorted sample of odd size whose middle
\* element differs from both quartiles.
QuartilesOfUnsortedOddSample ==
    /\ IsCall("quantiles")
    /\ last.out = "ok"
    /\ Untrimmed(last.before)
    /\ Len(last.before.data) % 2 = 1
    /\ last.before.data # Ascending(last.before.data)
    /\ Less(last.ret[1], MiddleOf(Ascending(last.before.data)))
    /\ Less(MiddleOf(Ascending(last.before.data)), last.ret[3])

\* C4: the second element returned by quantiles() is the median of the sorted sample,
\* whatever the order of the sample.
SecondQuartileIsMedianOfSorted ==
    (IsCall("quantiles") /\ last.out = "ok") =>
        last.ret[2] = MiddleOf(Ascending(last.before.data))

\* C5: covariance and pearson_correlation_coefficient on two samples of different
\* lengths fail and return no numeric result.
DifferentLengthsFail ==
    ((IsCall("covariance") \/ IsCall("pearson_correlation_coefficient"))
        /\ Len(last.args[1]) # Len(last.before.data)) =>
        last.out # "ok"

\* C6: mode() raises 'No mode found' exactly when no value occurs more than once;
\* otherwise it returns the values of maximum frequency: the value itself when there
\* is one, the list of them in order of first occurrence when there are several.
ModeIsTheMostFrequent ==
    IsCall("mode") =>
        LET xs == last.before.data
            most == IF xs = <<>> THEN 0
                    ELSE CHOOSE n \in 1..Len(xs) :
                            /\ \E v \in ValuesOf(xs) : Occurrences(xs, v) = n
                            /\ \A v \in ValuesOf(xs) : Occurrences(xs, v) <= n
            tied == {v \in ValuesOf(xs) : Occurrences(xs, v) = most}
        IN  IF most <= 1 THEN last.out = "ValueError: No mode found"
            ELSE /\ last.out = "ok"
                 /\ IF Cardinality(tied) = 1
                    THEN last.ret[1] = "value" /\ last.ret[2] \in tied
                    ELSE /\ last.ret[1] = "list"
                         /\ Len(last.ret[2]) = Cardinality(tied)
                         /\ ValuesOf(last.ret[2]) = tied
                         /\ \A i, j \in Positions(last.ret[2]) :
                                i < j => FirstPosition(xs, last.ret[2][i])
                                            < FirstPosition(xs, last.ret[2][j])

\* C6 witness: mode() returned a list of tied values that is in order of first
\* occurrence and not in ascending order.
ModeTieInOrderOfOccurrence ==
    /\ IsCall("mode")
    /\ last.out = "ok"
    /\ last.ret[1] = "list"
    /\ Less(last.ret[2][2], last.ret[2][1])

\* C7: one_sample_z_test with a direction other than the three allowed raises the
\* ValueError of the direction, returns nothing and leaves the sample (contents, size,
\* cached sum and parity) as it was, whatever the sample and the other arguments.
InvalidDirectionFailsFirst ==
    (IsCall("one_sample_z_test") /\ last.args[4] \notin Directions) =>
        /\ last.out = "ValueError: Invalid alternative hypothesis direction"
        /\ last.ret = None
        /\ self = last.before

\* C7 witness: the direction was invalid, no standard deviation was supplied and the
\* sample had one element and no cached sum.
InvalidDirectionOnDegenerateSample ==
    /\ IsCall("one_sample_z_test")
    /\ last.args[4] \notin Directions
    /\ last.args[2] = None
    /\ last.before.size = 1
    /\ self.cached_sum = None
    /\ last.out = "ValueError: Invalid alternative hypothesis direction"

\* C8: a two-tailed one_sample_z_test with a supplied standard deviation > 0 on a sample
\* whose arithmetic_mean() equals the hypothesized mean returns z = 0, p = 1 and, for a
\* significance level below 1, no rejection; and every result has rejected = (p < alpha).
ZeroStatisticIsNeverRejected ==
    (IsCall("one_sample_z_test") /\ last.args[4] \in Directions) =>
        LET MeanIs(m, v) == m.out = "ok" /\ m.ret = v
        IN  /\ (/\ last.args[4] = "two-tailed"
                /\ last.args[2] # None
                /\ Less(FromInt(0), last.args[2])
                /\ MeanIs(arithmetic_mean(last.before, FALSE), last.args[1])) =>
                   /\ last.out = "ok"
                   /\ last.ret.z_value.sign = 0
                   /\ last.ret.z_value.square = FromInt(0)
                   /\ last.ret.p_value = FromInt(1)
                   /\ (Less(last.args[3], FromInt(1)) => ~last.ret.null_hypothesis_rejected)
            /\ last.out = "ok" =>
                   (last.ret.null_hypothesis_rejected <=> Less(last.ret.p_value, last.args[3]))

\* C8 witness: the sample mean equalled the hypothesized mean in a two-tailed test at
\* significance level 1, so that p = alpha = 1, and the hypothesis was not rejected.
PEqualToAlphaNotRejected ==
    /\ IsCall("one_sample_z_test")
    /\ last.out = "ok"
    /\ last.args[4] = "two-tailed"
    /\ last.args[2] = FromInt(2)
    /\ last.args[3] = FromInt(1)
    /\ arithmetic_mean(last.before, FALSE).ret = last.args[1]
    /\ last.ret.p_value = last.args[3]
    /\ ~last.ret.null_hypothesis_rejected

\* C9: every method other than remove_outliers_iqr, whether it returns or raises, leaves
\* the list of the sample it is called on, and of the second sample handed to it,
\* unchanged in content and order.
OnlyOutlierRemovalChangesTheList ==
    (~IsCall("none") /\ ~IsCall("remove_outliers_iqr")) =>
        /\ self.data = last.before.data
        /\ self.size = last.before.size
        /\ (IsCall("covariance") \/ IsCall("pearson_correlation_coefficient")) =>
               last.other.data = last.args[1]

\* C9 witness: quantiles() returned on an unsorted sample, which is still unsorted.
QuantilesLeftSampleUnsorted ==
    /\ IsCall("quantiles")
    /\ last.out = "ok"
    /\ self.data # Ascending(self.data)
    /\ last.ret[1] # last.ret[3]

\* C10: in every reachable state, also after remove_outliers_iqr, each of
\* sum_of_observations(), arithmetic_mean(), is_num_of_items_even(), median() and
\* quantiles() ends as it does on a new sample constructed from the current list.
SameAsOnFreshSample ==
    LET fresh == DataSetWithStatistics(self.data)
        Same(a, b) == a.out = b.out /\ a.ret = b.ret
    IN  /\ Same(sum_of_observations(self), sum_of_observations(fresh))
        /\ Same(arithmetic_mean(self, FALSE), arithmetic_mean(fresh, FALSE))
        /\ Same(is_num_of_items_even(self), is_num_of_items_even(fresh))
        /\ Same(median(self), median(fresh))
        /\ Same(quantiles(self), quantiles(fresh))

====
